---------------------------- MODULE Spec2Model ----------------------------
(***************************************************************************)
(* Model of onelogin.Get and onelogin.getDevice (src/onelogin/get.go):     *)
(* the OneLogin flow that turns a username/password plus an MFA challenge  *)
(* into temporary AWS credentials.                                         *)
(*                                                                         *)
(* One flow is one call of Get.  The state is Get's local variables plus   *)
(* its position (pc); every action is one stretch of Get between two       *)
(* calls to the outside world (config, OneLogin client, terminal, saml,    *)
(* aws), whose answers are chosen nondeterministically.  The variable log  *)
(* is a history of the calls and prompts the flow has issued.              *)
(***************************************************************************)
EXTENDS Integers, Sequences, FiniteSets, TLC

(***************************************************************************)
(* Program constants                                                       *)
(***************************************************************************)
MFADeviceOneLoginProtect == "OneLogin Protect"
MFAPushTimeout == 30
MFAInterval == 1
FallbackDuration == 3600
ErrDurationExceeded == "DurationExceeded"

(***************************************************************************)
(* Bounds of the model                                                     *)
(***************************************************************************)
\* Longest device list an assertion response carries.
MaxDevices == 2
\* Number of rejected inputs getDevice may read before a valid one.
MaxBadInputs == 2

(***************************************************************************)
(* Values exchanged with the outside world                                 *)
(***************************************************************************)
\* The duration asked for: one that differs from the fallback of line 178.
Durations == {7200}
ConfigUsers == {"", "alice"}
UserLines == {<<"bob">>}
OtpLines == {<<>>, <<"123456">>}
Tokens == {"tok"}
AppIds == {"app1"}
StateTokens == {"st1", "st2"}
Device == {[DeviceId |-> 7, DeviceType |-> "Google Authenticator"],
           [DeviceId |-> 340, DeviceType |-> MFADeviceOneLoginProtect]}
DeviceLists == UNION {[1..n -> Device] : n \in 0..MaxDevices}
TransportErrors == {<<"timeout">>, <<"HTTP 401">>}
AssumeErrors == {<<ErrDurationExceeded>>, <<"AccessDenied">>}

\* An error is the sequence of the pieces of its message; nil is the empty one.
NilErr == <<>>
\* fmt.Errorf(prefix + "%v", e)
Errorf(prefix, e) == <<prefix>> \o e
\* err.Error() == msg
ErrorIs(e, msg) == e = <<msg>>

\* Payloads of a verify-factor response: the pieces of the role-binding
\* attribute, split at its commas.  Only an accepted response carries one.
EmptyData == <<>>
AssertionData == {<<"idp1", "role1">>, <<"idp1role1">>}
StatusTypes == {"pending", "accepted", "rejected"}
NilResp == [nil |-> TRUE, Type |-> "", Data |-> EmptyData]
VerifyFactorResponses ==
    {[nil |-> FALSE, Type |-> "accepted", Data |-> d] : d \in AssertionData}
    \cup {[nil |-> FALSE, Type |-> t, Data |-> EmptyData] :
              t \in StatusTypes \ {"accepted"}}

NilArn == [Provider |-> "", Role |-> ""]
\* saml.Get: the provider/role pair of the payload, or an error when the
\* attribute is absent or has the wrong arity.
SamlGet(data) ==
    IF Len(data) = 2
    THEN [arn |-> [Provider |-> data[1], Role |-> data[2]], err |-> NilErr]
    ELSE [arn |-> NilArn, err |-> <<"no role binding in assertion">>]

NilCreds == [valid |-> FALSE, call |-> 0, duration |-> 0]
\* The credentials the n-th role-assumption call hands out.
CredsOf(n, d) == [valid |-> TRUE, call |-> n, duration |-> d]

(***************************************************************************)
(* Text conversions                                                        *)
(***************************************************************************)
DigitChars == <<"0", "1", "2", "3", "4", "5", "6", "7", "8", "9">>
DigitVal(c) == (CHOOSE i \in 1..10 : DigitChars[i] = c) - 1
IsDigit(c) == \E i \in 1..10 : DigitChars[i] = c

RECURSIVE Itoa(_)
\* fmt.Sprintf("%v", n) of a non-negative int: its decimal digits.
Itoa(n) == IF n < 10 THEN <<DigitChars[n + 1]>>
           ELSE Itoa(n \div 10) \o <<DigitChars[(n % 10) + 1]>>

RECURSIVE DigitsVal(_)
DigitsVal(s) == IF s = <<>> THEN 0
                ELSE 10 * DigitsVal(SubSeq(s, 1, Len(s) - 1)) + DigitVal(s[Len(s)])

\* strconv.Atoi: an optional sign followed by at least one decimal digit.
Atoi(s) ==
    LET signed == Len(s) > 0 /\ s[1] \in {"+", "-"}
        body   == IF signed THEN SubSeq(s, 2, Len(s)) ELSE s
    IN  IF body # <<>> /\ \A i \in 1..Len(body) : IsDigit(body[i])
        THEN [ok |-> TRUE,
              val |-> IF signed /\ s[1] = "-" THEN 0 - DigitsVal(body)
                      ELSE DigitsVal(body)]
        ELSE [ok |-> FALSE, val |-> 0]

\* fmt.Scanln(&v) on a line given as its space-separated words: v takes the
\* first word; a line of no word or of several words is an error.
Scanln(line) == [val |-> IF Len(line) >= 1 THEN line[1] ELSE "",
                 err |-> Len(line) # 1]

\* Lines typed at the device prompt (each word is a sequence of characters).
DeviceLines ==
    {<<>>, <<<<"x">>>>, <<<<"1">>, <<"2">>>>, <<<<"0">>>>, <<<<"-", "1">>>>,
     <<<<"1">>>>, <<<<"2">>>>, <<<<"+", "2">>>>, <<<<"3">>>>, <<<<"4">>>>,
     <<<<"1", "x">>>>, <<<<"1", "0">>>>}


(***************************************************************************)
(* State                                                                   *)
(***************************************************************************)
VARIABLES
    pc,         \* position in Get
    duration,   \* Get's duration parameter
    appID,      \* a.ID
    user,       \* user
    token,      \* token
    st,         \* st
    devices,    \* devices
    deviceID,   \* deviceID
    deviceType, \* deviceType
    err,        \* err
    pushOK,     \* pushOK
    rMfa,       \* rMfa (the pointed-to response)
    pMfa,       \* pMfa of the push branch
    timeout,    \* timeout
    arn,        \* arn
    creds,      \* creds
    result,     \* what Get returned, once pc = "done"
    spin,       \* the spinner s
    badInputs,  \* rejected lines read by getDevice so far
    input,      \* the line getDevice read last
    log         \* history of calls and prompts

vars == <<pc, duration, appID, user, token, st, devices, deviceID, deviceType,
          err, pushOK, rMfa, pMfa, timeout, arn, creds, result, spin,
          badInputs, input, log>>

NilParams == [AppId |-> "", DeviceId |-> <<>>, StateToken |-> "",
              OtpToken |-> "", DoNotNotify |-> FALSE]
NoResult == [returned |-> FALSE, creds |-> NilCreds, err |-> NilErr]
Return(c, e) == [returned |-> TRUE, creds |-> c, err |-> e]

\* spinner.New(), s.Start(), s.Stop(): fault records a Start while running
\* or a Stop while stopped.
SpinnerNew == [on |-> FALSE, fault |-> FALSE]
Start(s) == [on |-> TRUE, fault |-> s.fault \/ s.on]
Stop(s) == [on |-> FALSE, fault |-> s.fault \/ ~s.on]

\* History entries: a call to a collaborator with its arguments, what it
\* returned and its error (ok: the error is nil), and a prompt on the
\* terminal with whether the spinner was running and the line read.
Call(op, args, out, e) ==
    [kind |-> "call", op |-> op, args |-> args, ok |-> (e = NilErr),
     out |-> out, err |-> e]
Prompt(what, s, line) ==
    [kind |-> "prompt", op |-> what, args |-> s.on, ok |-> TRUE,
     out |-> line, err |-> NilErr]

\* time.Sleep(d * time.Second) as a history entry.
Sleep(d) ==
    [kind |-> "sleep", op |-> "time.Sleep", args |-> d, ok |-> TRUE,
     out |-> "", err |-> NilErr]

Init ==
    /\ pc = "config"
    /\ duration \in Durations
    /\ appID = ""
    /\ user = ""
    /\ token = ""
    /\ st = ""
    /\ devices = <<>>
    /\ deviceID = <<>>
    /\ deviceType = ""
    /\ err = NilErr
    /\ pushOK = FALSE
    /\ rMfa = NilResp
    /\ pMfa = NilParams
    /\ timeout = 0
    /\ arn = NilArn
    /\ creds = NilCreds
    /\ result = NoResult
    /\ spin = SpinnerNew
    /\ badInputs = 0
    /\ input = <<>>
    /\ log = <<>>

\* return c, e
Finish(c, e) ==
    /\ pc' = "done"
    /\ result' = Return(c, e)

(***************************************************************************)
(* Get, lines 34-48: configuration and client                              *)
(***************************************************************************)
ReadConfig ==
    /\ pc = "config"
    /\ \/ \E u \in ConfigUsers, a \in AppIds :
             /\ user' = u
             /\ appID' = a
             /\ pc' = "token"
             /\ UNCHANGED <<err, result>>
       \/ \E e \in {<<"reading provider config: ", "no provider">>,
                    <<"reading config for app ", "no app">>,
                    <<"bad region">>} :
             /\ err' = e
             /\ Finish(NilCreds, e)
             /\ UNCHANGED <<user, appID>>
    /\ UNCHANGED <<duration, token, st, devices, deviceID, deviceType, pushOK,
                   rMfa, pMfa, timeout, arn, creds, spin, badInputs, log, input>>

(***************************************************************************)
(* Get, lines 50-59: access token                                          *)
(***************************************************************************)
GenerateTokens ==
    /\ pc = "token"
    /\ spin' = Stop(Start(spin))
    /\ \/ \E t \in Tokens :
             /\ token' = t
             /\ log' = Append(log, Call("GenerateTokens", <<>>, t, NilErr))
             /\ pc' = "login"
             /\ UNCHANGED <<err, result>>
       \/ \E e \in TransportErrors :
             /\ err' = e
             /\ log' = Append(log, Call("GenerateTokens", <<>>, "", e))
             /\ Finish(NilCreds, Errorf("generating access token: ", e))
             /\ UNCHANGED token
    /\ UNCHANGED <<duration, appID, user, st, devices, deviceID, deviceType,
                   pushOK, rMfa, pMfa, timeout, arn, creds, badInputs, input>>

(***************************************************************************)
(* Get, lines 61-72: username and password prompts                         *)
(***************************************************************************)
\* The username: the configured one, or the word read at the prompt.
AskUser(u, line) == IF u = "" THEN Scanln(line).val ELSE u
UserPrompts(u, s, line) ==
    IF u = "" THEN <<Prompt("username", s, line)>> ELSE <<>>

ReadLogin ==
    /\ pc = "login"
    /\ \E line \in UserLines :
          /\ user' = AskUser(user, line)
          /\ LET asked == log \o UserPrompts(user, spin, line)
                          \o <<Prompt("password", spin, <<>>)>>
             IN  \/ /\ log' = asked
                    /\ pc' = "assert"
                    /\ UNCHANGED <<err, result>>
                 \/ /\ log' = asked
                    /\ err' = <<"EOF">>
                    /\ Finish(NilCreds, <<"Couldn't read password from terminal">>)
    /\ UNCHANGED <<duration, appID, token, st, devices, deviceID, deviceType,
                   pushOK, rMfa, pMfa, timeout, arn, creds, spin, badInputs, input>>

(***************************************************************************)
(* Get, lines 74-93: SAML assertion request                                *)
(***************************************************************************)
GenerateSamlAssertion ==
    /\ pc = "assert"
    /\ spin' = Stop(Start(spin))
    /\ LET args == [token |-> token, UsernameOrEmail |-> user, AppId |-> appID]
       IN  \/ \E s \in StateTokens, ds \in DeviceLists :
                /\ st' = s
                /\ devices' = ds
                /\ log' = Append(log, Call("GenerateSamlAssertion", args, s, NilErr))
                /\ pc' = "device"
                /\ UNCHANGED <<err, result>>
           \/ \E e \in TransportErrors :
                /\ err' = e
                /\ log' = Append(log, Call("GenerateSamlAssertion", args, "", e))
                /\ Finish(NilCreds, Errorf("generating SAML assertion: ", e))
                /\ UNCHANGED <<st, devices>>
    /\ UNCHANGED <<duration, appID, user, token, deviceID, deviceType, pushOK,
                   rMfa, pMfa, timeout, arn, creds, badInputs, input>>


(***************************************************************************)
(* getDevice, lines 189-233                                                *)
(***************************************************************************)
\* As SelectedDevice, always taking the first device.
SelectedDevice_First(ds, selection) == ds[1]

\* Lines 230-231: devices[selection-1], the device at the 1-indexed
\* position selection.
SelectedDevice(ds, selection) == ds[selection]

\* Lines 201-232: one turn of the selection loop over the line typed.
AskDevice(ds, line) ==
    LET again == [done |-> FALSE, prompted |-> TRUE, deviceID |-> <<>>,
                  deviceType |-> "", err |-> NilErr]
        in    == Scanln(line)
    IN  IF in.err THEN again
        ELSE LET selection == Atoi(in.val)
             IN  IF ~selection.ok THEN again
                 ELSE IF selection.val < 1 \/ selection.val > Len(ds)
                 THEN again
                 ELSE [done |-> TRUE, prompted |-> TRUE,
                       deviceID |->
                           Itoa(SelectedDevice(ds, selection.val).DeviceId),
                       deviceType |->
                           SelectedDevice(ds, selection.val).DeviceType,
                       err |-> NilErr]

\* Lines 190-194: the result for an empty device list.
NoDevice == [done |-> TRUE, prompted |-> FALSE, deviceID |-> <<>>,
             deviceType |-> "", err |-> <<"No MFA device returned by Onelogin">>]

\* As getDevice, without the shortcut for a single device.
getDevice_NoShortcut(ds, line) ==
    IF Len(ds) = 0 THEN NoDevice ELSE AskDevice(ds, line)

\* One pass of getDevice over the line the user types, if it gets to read
\* one: done tells whether getDevice returns on this pass or prompts again.
getDevice(ds, line) ==
    IF Len(ds) = 0
    THEN NoDevice
    ELSE IF Len(ds) = 1
    THEN [done |-> TRUE, prompted |-> FALSE, deviceID |-> Itoa(ds[1].DeviceId),
          deviceType |-> ds[1].DeviceType, err |-> NilErr]
    ELSE AskDevice(ds, line)

\* Line 100: the branch Get takes once getDevice has returned.  The error
\* getDevice returned is stored in err and not looked at.
AfterDevice(type, e) ==
    IF type = MFADeviceOneLoginProtect THEN "push" ELSE "otp"

\* Line 94: the call of getDevice, one typed line at a time.
GetDevice ==
    /\ pc = "device"
    /\ \E line \in DeviceLines :
          LET r == getDevice(devices, line)
              asked == IF r.prompted THEN <<Prompt("device", spin, <<>>)>>
                       ELSE <<>>
          IN  /\ input' = IF r.prompted THEN line ELSE input
              /\ IF r.done
                 THEN /\ deviceID' = r.deviceID
                      /\ deviceType' = r.deviceType
                      /\ err' = r.err
                      /\ log' = log \o asked
                                \o <<Call("getDevice", devices,
                                          <<r.deviceID, r.deviceType>>, r.err)>>
                      /\ pc' = AfterDevice(r.deviceType, r.err)
                      /\ UNCHANGED badInputs
                 ELSE /\ badInputs < MaxBadInputs
                      /\ badInputs' = badInputs + 1
                      /\ log' = log \o asked
                      /\ UNCHANGED <<deviceID, deviceType, err, pc>>
    /\ UNCHANGED <<duration, appID, user, token, st, devices, pushOK, rMfa,
                   pMfa, timeout, arn, creds, result, spin>>

(***************************************************************************)
(* Get, lines 100-140: push notification and polling                       *)
(***************************************************************************)
\* As VerifyFactorParams, with the StateToken field left out of the literal.
VerifyFactorParams_NoStateToken(otp, quiet) ==
    [AppId |-> appID, DeviceId |-> deviceID, StateToken |-> "",
     OtpToken |-> otp, DoNotNotify |-> quiet]

\* Lines 103-109 and 149-155: the VerifyFactorParams literal.
VerifyFactorParams(otp, quiet) ==
    [AppId |-> appID, DeviceId |-> deviceID, StateToken |-> st,
     OtpToken |-> otp, DoNotNotify |-> quiet]

\* As PollParams, with DoNotNotify left as it was.
PollParams_StillNotifies(p) == p

\* Line 118: the parameters of the polling calls.
PollParams(p) == [p EXCEPT !.DoNotNotify = TRUE]

\* As PollErrorSpinner, without the Stop.
PollErrorSpinner_LeftRunning(s) == s

\* Line 128: the spinner when a poll fails.
PollErrorSpinner(s) == Stop(s)

\* site is the place in Get that issues the call: "push" (line 112), "poll"
\* (line 126) or "otp" (line 158).
VerifyFactorCall(site, params, resp, e) ==
    Call("VerifyFactor", [site |-> site, token |-> token, params |-> params],
         resp, e)

\* As PushError, with the error wrapped in a new one.
PushError_Wrapped(e) == Errorf("verifying factor: ", e)

\* Lines 114-116 and 127-130: the error Get returns when a verify-factor
\* call of the push branch fails with e.
PushError(e) == e

\* Lines 100-123: the notifying call.
PushInitial ==
    /\ pc = "push"
    /\ pushOK' = TRUE
    /\ LET p == VerifyFactorParams("", FALSE)
       IN  \/ \E r \in VerifyFactorResponses :
                /\ rMfa' = r
                /\ pMfa' = PollParams(p)
                /\ timeout' = MFAPushTimeout
                /\ spin' = Start(Stop(Start(spin)))
                /\ log' = Append(log, VerifyFactorCall("push", p, r, NilErr))
                /\ pc' = "poll"
                /\ UNCHANGED <<err, result>>
           \/ \E e \in TransportErrors :
                /\ rMfa' = NilResp
                /\ pMfa' = p
                /\ err' = e
                /\ spin' = Stop(Start(spin))
                /\ log' = Append(log, VerifyFactorCall("push", p, NilResp, e))
                /\ Finish(NilCreds, PushError(e))
                /\ UNCHANGED timeout
    /\ UNCHANGED <<duration, appID, user, token, st, devices, deviceID,
                   deviceType, arn, creds, badInputs, input>>

\* As Polling, with the budget left out of the loop condition.
Polling_NoBudget(resp, t) == resp.Type = "pending"
\* As Polling, with the status left out of the loop condition.
Polling_IgnoresStatus(resp, t) == t > 0

\* Line 124: the loop condition.
Polling(resp, t) == resp.Type = "pending" /\ t > 0

\* Lines 125-132: one turn of the loop.
PushPoll ==
    /\ pc = "poll"
    /\ Polling(rMfa, timeout)
    /\ \/ \E r \in VerifyFactorResponses :
             /\ rMfa' = r
             /\ timeout' = timeout - MFAInterval
             /\ log' = log \o <<Sleep(MFAInterval),
                                VerifyFactorCall("poll", pMfa, r, NilErr)>>
             /\ UNCHANGED <<err, spin, pc, result>>
       \/ \E e \in TransportErrors :
             /\ rMfa' = NilResp
             /\ err' = e
             /\ spin' = PollErrorSpinner(spin)
             /\ log' = log \o <<Sleep(MFAInterval),
                                VerifyFactorCall("poll", pMfa, NilResp, e)>>
             /\ Finish(NilCreds, PushError(e))
             /\ UNCHANGED timeout
    /\ UNCHANGED <<duration, appID, user, token, st, devices, deviceID,
                   deviceType, pushOK, pMfa, arn, creds, badInputs, input>>

\* As PushVerdict, with pushOK cleared whatever the status.
PushVerdict_AlwaysFallsBack(ok, resp) == FALSE
\* As PushVerdict, falling back on every status but accepted.
PushVerdict_FallbackUnlessAccepted(ok, resp) == ok /\ resp.Type = "accepted"
\* As PushVerdict, without the fallback on a pending status.
PushVerdict_NoFallback(ok, resp) == ok

\* Lines 136-139: pushOK once the loop has ended with response resp.
PushVerdict(ok, resp) == IF resp.Type = "pending" THEN FALSE ELSE ok

\* Lines 134-142: the loop has ended.
PushDone ==
    /\ pc = "poll"
    /\ ~Polling(rMfa, timeout)
    /\ spin' = Stop(spin)
    /\ pushOK' = PushVerdict(pushOK, rMfa)
    /\ pc' = IF pushOK' THEN "saml" ELSE "otp"
    /\ UNCHANGED <<duration, appID, user, token, st, devices, deviceID,
                   deviceType, err, rMfa, pMfa, timeout, arn, creds, result,
                   badInputs, log, input>>

(***************************************************************************)
(* Get, lines 142-163: manual OTP                                          *)
(***************************************************************************)
\* As AfterOtp, asking for the OTP again unless it was accepted.
AfterOtp_RetryUnlessAccepted(resp) ==
    IF resp.Type = "accepted" THEN "saml" ELSE "otp"

\* Lines 160-165: where Get goes once the OTP call has answered resp.
AfterOtp(resp) == "saml"

OtpVerify ==
    /\ pc = "otp"
    /\ ~pushOK
    /\ spin' = Stop(Start(spin))
    /\ \E line \in OtpLines :
          LET p == VerifyFactorParams(Scanln(line).val, FALSE)
          IN  /\ pMfa' = p
              /\ \/ \E r \in VerifyFactorResponses :
                       /\ rMfa' = r
                       /\ log' = log \o <<Prompt("otp", spin, line),
                                          VerifyFactorCall("otp", p, r, NilErr)>>
                       /\ pc' = AfterOtp(r)
                       /\ UNCHANGED <<err, result>>
                 \/ \E e \in TransportErrors :
                       /\ rMfa' = NilResp
                       /\ err' = e
                       /\ log' = log \o <<Prompt("otp", spin, line),
                                          VerifyFactorCall("otp", p, NilResp, e)>>
                       /\ Finish(NilCreds, Errorf("verifying factor: ", e))
    /\ UNCHANGED <<duration, appID, user, token, st, devices, deviceID,
                   deviceType, pushOK, timeout, arn, creds, badInputs, input>>

(***************************************************************************)
(* Get, lines 165-168: role binding                                        *)
(***************************************************************************)
ExtractRoleBinding ==
    /\ pc = "saml"
    /\ LET r == SamlGet(rMfa.Data)
       IN  /\ arn' = r.arn
           /\ err' = r.err
           /\ log' = Append(log, Call("saml.Get", rMfa.Data, r.arn, r.err))
           /\ IF r.err # NilErr
              THEN Finish(NilCreds, r.err)
              ELSE pc' = "assume" /\ UNCHANGED result
    /\ UNCHANGED <<duration, appID, user, token, st, devices, deviceID,
                   deviceType, pushOK, rMfa, pMfa, timeout, creds, spin,
                   badInputs, input>>

(***************************************************************************)
(* Get, lines 170-183: role assumption                                     *)
(***************************************************************************)
IsAssume(e) == e.kind = "call" /\ e.op = "AssumeSAMLRole"
AssumeCalls == SelectSeq(log, IsAssume)

AssumeArgs(d) == [Provider |-> arn.Provider, Role |-> arn.Role,
                  Data |-> rMfa.Data, Duration |-> d]

\* aws.AssumeSAMLRole with duration d: the credentials of this call, or an error.
AssumeSAMLRole(d, c, e) ==
    /\ \/ c = CredsOf(Len(AssumeCalls) + 1, d) /\ e = NilErr
       \/ c = NilCreds /\ e \in AssumeErrors
    /\ log' = Append(log, Call("AssumeSAMLRole", AssumeArgs(d), c, e))

\* Lines 170-172: the first call.
AssumeRole ==
    /\ pc = "assume"
    /\ spin' = Stop(Start(spin))
    /\ \E c \in {CredsOf(Len(AssumeCalls) + 1, duration), NilCreds},
          e \in {NilErr} \cup AssumeErrors :
          /\ AssumeSAMLRole(duration, c, e)
          /\ creds' = c
          /\ err' = e
    /\ pc' = "assumed"
    /\ UNCHANGED <<duration, appID, user, token, st, devices, deviceID,
                   deviceType, pushOK, rMfa, pMfa, timeout, arn, result,
                   badInputs, input>>

\* As ShouldRetry, trying again after any error.
ShouldRetry_AnyError(e) == e # NilErr

\* Lines 174-175: whether the first call is tried again.
ShouldRetry(e) == e # NilErr /\ ErrorIs(e, ErrDurationExceeded)

\* As AfterRetry, with the second outcome assigned to shadowing variables.
AfterRetry_Shadowed(first, second) == first
\* As AfterRetry, with the second error dropped.
AfterRetry_DropsError(first, second) == [creds |-> second.creds, err |-> NilErr]

\* Lines 178 and 183: what Get returns after the second call, given the
\* outcome of the first call and of the second.
AfterRetry(first, second) == second

\* Lines 176-183: the second call, and the return.
AssumeRetry ==
    /\ pc = "assumed"
    /\ ShouldRetry(err)
    /\ spin' = Stop(Start(spin))
    /\ \E c \in {CredsOf(Len(AssumeCalls) + 1, FallbackDuration), NilCreds},
          e \in {NilErr} \cup AssumeErrors :
          /\ AssumeSAMLRole(FallbackDuration, c, e)
          /\ LET r == AfterRetry([creds |-> creds, err |-> err],
                                 [creds |-> c, err |-> e])
             IN  /\ creds' = r.creds
                 /\ err' = r.err
                 /\ Finish(r.creds, r.err)
    /\ UNCHANGED <<duration, appID, user, token, st, devices, deviceID,
                   deviceType, pushOK, rMfa, pMfa, timeout, arn, badInputs, input>>

\* Line 183: the return when no second call is made.
ReturnCreds ==
    /\ pc = "assumed"
    /\ ~ShouldRetry(err)
    /\ Finish(creds, err)
    /\ UNCHANGED <<duration, appID, user, token, st, devices, deviceID,
                   deviceType, err, pushOK, rMfa, pMfa, timeout, arn, creds,
                   spin, badInputs, log, input>>

Next ==
    \/ ReadConfig
    \/ GenerateTokens
    \/ ReadLogin
    \/ GenerateSamlAssertion
    \/ GetDevice
    \/ PushInitial
    \/ PushPoll
    \/ PushDone
    \/ OtpVerify
    \/ ExtractRoleBinding
    \/ AssumeRole
    \/ AssumeRetry
    \/ ReturnCreds

Spec == Init /\ [][Next]_vars

TypeOK ==
    /\ pc \in {"config", "token", "login", "assert", "device", "push", "poll",
               "otp", "saml", "assume", "assumed", "done"}
    /\ timeout \in 0..MFAPushTimeout
    /\ badInputs \in 0..MaxBadInputs
    /\ result.returned = (pc = "done")


(***************************************************************************)
(* Reading the history                                                     *)
(***************************************************************************)
IsCallOf(e, op) == e.kind = "call" /\ e.op = op
IsVerifyFactor(e) == IsCallOf(e, "VerifyFactor")
IsSamlGet(e) == IsCallOf(e, "saml.Get")
IsOtpPrompt(e) == e.kind = "prompt" /\ e.op = "otp"
IsOtpCall(e) == IsVerifyFactor(e) /\ e.args.site = "otp"
IsPushCall(e) == IsVerifyFactor(e) /\ e.args.site # "otp"

\* The verify-factor calls, the push-branch ones, the OTP ones, the OTP
\* prompts and the saml.Get calls of the flow so far, in order.
VFCalls == SelectSeq(log, IsVerifyFactor)
PushCalls == SelectSeq(log, IsPushCall)
OtpCalls == SelectSeq(log, IsOtpCall)
OtpPrompts == SelectSeq(log, IsOtpPrompt)
SamlCalls == SelectSeq(log, IsSamlGet)

Last(s) == s[Len(s)]
Min(S) == CHOOSE x \in S : \A y \in S : x <= y

Accepted(e) == e.ok /\ e.out.Type = "accepted"
Pending(e) == e.ok /\ e.out.Type = "pending"
\* A status that is neither pending nor accepted.
Rejected(e) == e.ok /\ e.out.Type \notin {"pending", "accepted"}
AllPending(s) == \A i \in 1..Len(s) : Pending(s[i])

\* An error of the MFA verification stage: a transport error of a
\* verify-factor call, bare or with the stage prefix.
MfaVerificationError(e) ==
    \E t \in TransportErrors : e = t \/ e = Errorf("verifying factor: ", t)

\* Number of polls the budget allows.
MaxPolls == MFAPushTimeout \div MFAInterval

(***************************************************************************)
(* C1                                                                      *)
(***************************************************************************)
\* The MFA challenge ended rejected: push polling ended on a rejected
\* status, or the OTP call answered anything but accepted.
MfaRejected ==
    LET vf == VFCalls
    IN  /\ vf # <<>>
        /\ pc \notin {"push", "poll"}
        /\ \/ IsPushCall(Last(vf)) /\ Rejected(Last(vf))
           \/ IsOtpCall(Last(vf)) /\ ~Accepted(Last(vf))

\* C1: the role-assumption endpoint is called only if the latest
\* verify-factor response was accepted, and a flow whose MFA challenge ended
\* rejected returns an MFA verification error without any role-assumption
\* call.
C1_AssumeOnlyAfterAccepted ==
    /\ AssumeCalls # <<>> => VFCalls # <<>> /\ Accepted(Last(VFCalls))
    /\ MfaRejected /\ pc = "done" =>
          MfaVerificationError(result.err) /\ AssumeCalls = <<>>

(***************************************************************************)
(* C2                                                                      *)
(***************************************************************************)
GetDeviceFailed ==
    \E i \in 1..Len(log) : IsCallOf(log[i], "getDevice") /\ ~log[i].ok

\* The statement of C1 for the flows in which a device was selected and the
\* push branch was taken: it fails on its own, whatever getDevice returned.
C1_OnPushWithDeviceSelected ==
    ~GetDeviceFailed /\ PushCalls # <<>> => C1_AssumeOnlyAfterAccepted

\* C2: when getDevice fails on an empty device set, no verify-factor call is
\* made, the user is not asked for an OTP, no role binding is extracted, no
\* role is assumed, and Get returns the no-device error.
C2_NoDeviceIsFatal ==
    GetDeviceFailed =>
        /\ VFCalls = <<>> /\ OtpPrompts = <<>>
        /\ SamlCalls = <<>> /\ AssumeCalls = <<>>
        /\ pc = "done" => result.err = getDevice(<<>>, <<>>).err

(***************************************************************************)
(* C3                                                                      *)
(***************************************************************************)
\* The push branch was accepted: the first verify-factor call that did not
\* answer pending is a push-branch call and answered accepted.
PushAccepted(vf) ==
    LET done == {i \in 1..Len(vf) : ~Pending(vf[i])}
        first == vf[Min(done)]
    IN  done # {} /\ IsPushCall(first) /\ Accepted(first)
\* The accepting call.
AcceptingCall(vf) == vf[Min({i \in 1..Len(vf) : ~Pending(vf[i])})]

\* C3: when the push branch is accepted at poll k (its k+1-th verify-factor
\* call), k is at most 30, the accepting call is the last verify-factor call
\* of the flow (k+1 calls in all), no OTP is asked for, and the payload
\* handed to saml.Get and to AssumeSAMLRole is the payload of that call.
C3_AcceptedPushUsesFinalPayload ==
    LET vf == VFCalls
        sc == SamlCalls
        ac == AssumeCalls
    IN  PushAccepted(vf) =>
        /\ AcceptingCall(vf) = Last(vf)
        /\ Len(vf) - 1 <= MaxPolls
        /\ OtpPrompts = <<>>
        /\ pc # "otp"
        /\ \A i \in 1..Len(sc) : sc[i].args = Last(vf).out.Data
        /\ \A i \in 1..Len(ac) : ac[i].args.Data = Last(vf).out.Data
        /\ pc \in {"saml", "assume", "assumed"} => rMfa = Last(vf).out

\* The push is accepted by the last poll the budget allows, and a role is
\* assumed with its payload.
C3_Witness ==
    /\ PushAccepted(VFCalls)
    /\ Len(VFCalls) = MaxPolls + 1
    /\ AssumeCalls # <<>>

(***************************************************************************)
(* C4                                                                      *)
(***************************************************************************)
\* The polling loop is over and every push call answered pending.
PushTimedOut ==
    LET push == PushCalls
    IN  /\ pc \notin {"push", "poll"}
        /\ push # <<>>
        /\ AllPending(push)

\* C4: when every push call answers pending, the loop ends after exactly 30
\* polls; the flow does not end there and does not extract a role binding
\* from the pending response: it asks for an OTP once and makes exactly one
\* more verify-factor call, which carries the OTP read.
C4_TimeoutFallsBackToOtp ==
    LET push == PushCalls
        op == OtpPrompts
        oc == OtpCalls
        vf == VFCalls
        sc == SamlCalls
    IN  /\ pc = "poll" =>
              (Len(push) - 1) * MFAInterval = MFAPushTimeout - timeout
        /\ PushTimedOut =>
              /\ Len(push) = 1 + MaxPolls
              /\ ~pushOK
              /\ pc = "otp" => op = <<>> /\ oc = <<>> /\ ~result.returned
              /\ pc # "otp" =>
                    /\ Len(op) = 1
                    /\ Len(oc) = 1
                    /\ Len(vf) = 2 + MaxPolls
                    /\ IsOtpCall(Last(vf))
                    /\ oc[1].args.params.OtpToken = Scanln(op[1].out).val
                    /\ \A i \in 1..Len(sc) : sc[i].args = oc[1].out.Data

\* The push timed out, an OTP was typed and its call answered.
C4_Witness ==
    /\ PushTimedOut
    /\ pc = "saml"
    /\ Last(VFCalls).args.params.OtpToken = "123456"


(***************************************************************************)
(* C5                                                                      *)
(***************************************************************************)
FailedPushCall(e) == IsPushCall(e) /\ ~e.ok

\* C5: when a verify-factor call of the push branch fails, it is the last
\* thing the flow does: Get returns that very error and no credentials, and
\* no further poll, OTP prompt, OTP call, role-binding extraction or
\* role-assumption call follows.
C5_PushErrorAborts ==
    SelectSeq(log, FailedPushCall) # <<>> =>
        /\ Len(SelectSeq(log, FailedPushCall)) = 1
        /\ FailedPushCall(Last(log))
        /\ pc = "done"
        /\ result = Return(NilCreds, Last(log).err)
        /\ OtpPrompts = <<>> /\ OtpCalls = <<>>
        /\ SamlCalls = <<>> /\ AssumeCalls = <<>>

\* A poll fails after the notifying call answered pending.
C5_Witness ==
    /\ log # <<>>
    /\ FailedPushCall(Last(log))
    /\ Last(log).args.site = "poll"
    /\ Len(PushCalls) > 2

(***************************************************************************)
(* C6                                                                      *)
(***************************************************************************)
DurationExceeded(e) == ~e.ok /\ ErrorIs(e.err, ErrDurationExceeded)

\* C6: at most two role-assumption calls; the first asks for the caller's
\* duration; a second is made only after the first was rejected with
\* DurationExceeded, and asks for 3600 seconds with the same provider ARN,
\* role ARN and payload; any other rejection of the first call is returned
\* without a second call.
C6_AtMostOneRetry ==
    LET a == AssumeCalls
    IN  /\ Len(a) <= 2
        /\ Len(a) >= 1 =>
              /\ a[1].args.Duration = duration
              /\ a[1].args.Data = rMfa.Data
              /\ a[1].args.Provider = arn.Provider
              /\ a[1].args.Role = arn.Role
        /\ Len(a) = 2 =>
              /\ DurationExceeded(a[1])
              /\ a[2].args = [a[1].args EXCEPT !.Duration = FallbackDuration]
        /\ Len(a) >= 1 /\ ~a[1].ok /\ ~DurationExceeded(a[1]) =>
              /\ Len(a) = 1
              /\ pc \in {"assumed", "done"}
              /\ pc = "done" => result = Return(a[1].out, a[1].err)

\* A flow asking for 7200 seconds retries with 3600.
C6_Witness ==
    /\ Len(AssumeCalls) = 2
    /\ AssumeCalls[1].args.Duration = 7200
    /\ AssumeCalls[2].args.Duration = 3600

(***************************************************************************)
(* C7                                                                      *)
(***************************************************************************)
RetrySucceeded ==
    /\ Len(AssumeCalls) = 2
    /\ DurationExceeded(AssumeCalls[1])
    /\ AssumeCalls[2].ok

\* C7: when the first role-assumption call is rejected with
\* DurationExceeded and the 3600-second call succeeds, Get returns the
\* credentials of the second call and a nil error.
C7_RetryCredentialsReturned ==
    RetrySucceeded =>
        /\ pc = "done"
        /\ result = Return(AssumeCalls[2].out, NilErr)
        /\ result.creds = CredsOf(2, FallbackDuration)

\* The retry succeeded and Get has returned.
C7_Witness == RetrySucceeded /\ result.returned

(***************************************************************************)
(* C8                                                                      *)
(***************************************************************************)
RetryExceededToo ==
    /\ Len(AssumeCalls) >= 2
    /\ DurationExceeded(AssumeCalls[1])
    /\ DurationExceeded(AssumeCalls[2])

\* C8: when both role-assumption calls are rejected with DurationExceeded,
\* Get returns a non-nil error (the second rejection) and makes no third
\* call.
C8_SecondRejectionIsFatal ==
    RetryExceededToo =>
        /\ pc = "done"
        /\ result.err # NilErr
        /\ result.err = AssumeCalls[2].err
        /\ Len(AssumeCalls) = 2

\* Both calls were rejected with DurationExceeded and Get has returned.
C8_Witness == RetryExceededToo /\ result.returned /\ duration = 7200

(***************************************************************************)
(* C9                                                                      *)
(***************************************************************************)
IsMfaStep(e) == IsVerifyFactor(e) \/ IsOtpPrompt(e)

\* C9: the user is asked for an OTP at most once and at most one
\* verify-factor call carries an OTP; once that call has returned, whatever
\* its outcome, no verify-factor call and no OTP prompt follows.
C9_SingleOtpAttempt ==
    LET op == OtpPrompts
        oc == OtpCalls
    IN  /\ Len(op) <= 1
        /\ Len(oc) <= 1
        /\ Len(oc) = Len(op)
        /\ oc # <<>> =>
              /\ IsOtpCall(Last(SelectSeq(log, IsMfaStep)))
              /\ pc # "otp"

\* The OTP typed after a push timeout was rejected and the flow went on.
C9_Witness ==
    /\ OtpCalls # <<>>
    /\ Rejected(OtpCalls[1])
    /\ Len(VFCalls) = MaxPolls + 2
    /\ pc = "done"

(***************************************************************************)
(* C10                                                                     *)
(***************************************************************************)
IsCall(e) == e.kind = "call"
Stage(e) ==
    CASE e.op = "GenerateTokens" -> 1
      [] e.op = "GenerateSamlAssertion" -> 2
      [] e.op = "getDevice" -> 3
      [] e.op = "VerifyFactor" -> 4
      [] e.op = "saml.Get" -> 5
      [] e.op = "AssumeSAMLRole" -> 6

\* C10: the stages run in the order token, assertion, device selection,
\* verify-factor, role binding, role assumption; a stage is entered only
\* from the stage before it and only when that one succeeded; the token and
\* the assertion are requested at most once; no verify-factor call follows
\* the role-binding extraction.
C10_StagesInOrder ==
    LET calls == SelectSeq(log, IsCall)
    IN  \A i \in 1..Len(calls) :
           /\ i = 1 => Stage(calls[i]) = 1
           /\ i > 1 =>
                 \/ /\ Stage(calls[i]) = Stage(calls[i - 1]) + 1
                    /\ calls[i - 1].ok
                 \/ /\ Stage(calls[i]) = Stage(calls[i - 1])
                    /\ Stage(calls[i]) \in {4, 6}

(***************************************************************************)
(* C11                                                                     *)
(***************************************************************************)
\* e is cause with the name of a stage put in front of it.
Annotated(e, cause) == Len(e) = Len(cause) + 1 /\ Tail(e) = cause

\* C11: when Get returns after a call to a collaborator failed (token,
\* assertion, device selection, verify-factor of the push branch or of the
\* OTP branch, role binding, role assumption), the error it returns is that
\* call's error annotated with the stage.
C11_ErrorsNameTheirStage ==
    LET calls == SelectSeq(log, IsCall)
    IN  pc = "done" /\ calls # <<>> /\ ~Last(calls).ok =>
            Annotated(result.err, Last(calls).err)

(***************************************************************************)
(* C12                                                                     *)
(***************************************************************************)
IsDevicePrompt(e) == e.kind = "prompt" /\ e.op = "device"
IsGetDevice(e) == IsCallOf(e, "getDevice")
DevicePrompts == SelectSeq(log, IsDevicePrompt)
GetDeviceCalls == SelectSeq(log, IsGetDevice)

\* The ways of writing the integer k that the selection accepts.
Numerals(k) == {Itoa(k), <<"+">> \o Itoa(k)}
\* The line is one word, and the word is an integer within 1..n.
ValidLine(line, n) ==
    Len(line) = 1 /\ \E k \in 1..n : line[1] \in Numerals(k)
Choice(line, n) == CHOOSE k \in 1..n : line[1] \in Numerals(k)

\* What getDevice is to return for the device d.
Answer(d, g) ==
    /\ g.ok
    /\ DigitsVal(g.out[1]) = d.DeviceId
    /\ g.out[2] = d.DeviceType
    /\ deviceID = g.out[1]
    /\ deviceType = g.out[2]

\* C12: with two devices or more, getDevice has not returned as long as
\* the lines read were unreadable, non-numeric or out of range (each one
\* read brought a new prompt); when it returns, the line read last is an
\* integer within 1..N, the id and type returned are those of the device at
\* that position, and the error is nil.
C12_SelectionLoop ==
    Len(devices) >= 2 =>
        /\ Len(GetDeviceCalls) = IF pc = "device" THEN 0 ELSE 1
        /\ pc = "device" =>
              /\ Len(DevicePrompts) = badInputs
              /\ badInputs > 0 => ~ValidLine(input, Len(devices))
              /\ ~result.returned
        /\ pc # "device" =>
              /\ Len(DevicePrompts) = badInputs + 1
              /\ ValidLine(input, Len(devices))
              /\ Answer(devices[Choice(input, Len(devices))], GetDeviceCalls[1])

\* After two rejected lines the second of two different devices is chosen.
C12_Witness ==
    /\ Len(devices) >= 2
    /\ devices[1] # devices[2]
    /\ pc # "device"
    /\ badInputs = 2
    /\ input = <<<<"+", "2">>>>

(***************************************************************************)
(* C13                                                                     *)
(***************************************************************************)
\* C13: with exactly one device, getDevice returns its id and type and a
\* nil error, without a prompt and without reading a line.
C13_SingleDeviceNoPrompt ==
    Len(devices) = 1 /\ pc # "device" =>
        /\ Len(GetDeviceCalls) = 1
        /\ Answer(devices[1], GetDeviceCalls[1])
        /\ DevicePrompts = <<>>
        /\ badInputs = 0
        /\ input = <<>>

\* getDevice has returned the only device, a push-capable one.
C13_Witness ==
    /\ Len(devices) = 1
    /\ pc = "push"
    /\ deviceType = MFADeviceOneLoginProtect

(***************************************************************************)
(* C14                                                                     *)
(***************************************************************************)
\* The happy path: the push is accepted by the notifying call or by the
\* first poll, its payload holds a role binding and the first
\* role-assumption call succeeds.
HappyPath ==
    LET vf == VFCalls
        sc == SamlCalls
        ac == AssumeCalls
    IN  /\ PushAccepted(vf)
        /\ AcceptingCall(vf) \in {vf[1], vf[Min({2, Len(vf)})]}
        /\ sc # <<>> /\ sc[1].ok
        /\ ac # <<>> /\ ac[1].ok

\* C14: on the happy path there is one role-assumption call, made with the
\* duration asked for, no OTP prompt, and Get returns the credentials of
\* that call with a nil error.
C14_HappyPath ==
    LET ac == AssumeCalls
    IN  HappyPath =>
        /\ Len(ac) = 1
        /\ ac[1].args.Duration = duration
        /\ ac[1].out = CredsOf(1, duration)
        /\ OtpPrompts = <<>> /\ OtpCalls = <<>>
        /\ Len(VFCalls) <= 2
        /\ pc \in {"assumed", "done"}
        /\ pc = "done" => result = Return(ac[1].out, NilErr)

\* The first poll is accepted and Get returns credentials for the 7200
\* seconds asked for.
C14_Witness ==
    /\ HappyPath
    /\ Len(VFCalls) = 2
    /\ result.returned
    /\ result.creds.valid
    /\ result.creds.duration = 7200

(***************************************************************************)
(* C15                                                                     *)
(***************************************************************************)
\* C15: an OTP is asked for, and an OTP-carrying call made, only when the
\* device type is not the push-capable one (no push call was made) or when
\* the push branch used its whole budget with every answer pending; a push
\* branch that ended on another status is never followed by an OTP prompt.
C15_OtpOnlyAsFallback ==
    LET push == PushCalls
        op == OtpPrompts
        oc == OtpCalls
    IN  /\ op # <<>> \/ oc # <<>> \/ pc = "otp" =>
              \/ push = <<>> /\ deviceType # MFADeviceOneLoginProtect
              \/ Len(push) = MaxPolls + 1 /\ AllPending(push)
        /\ push # <<>> /\ Last(push).ok /\ ~Pending(Last(push)) =>
              op = <<>> /\ oc = <<>> /\ pc # "otp"

\* A push that was rejected: the flow ends without an OTP prompt.
C15_Witness ==
    /\ PushCalls # <<>>
    /\ Rejected(Last(PushCalls))
    /\ result.returned
    /\ OtpPrompts = <<>>

(***************************************************************************)
(* C16                                                                     *)
(***************************************************************************)
IsSleep(e) == e.kind = "sleep"
IsPoll(e) == IsVerifyFactor(e) /\ e.args.site = "poll"
SleepAt == {i \in 1..Len(log) : IsSleep(log[i])}

\* C16: the loop sleeps at most 30 times, one second each; every sleep is
\* directly followed by one verify-factor call and every poll directly
\* preceded by one sleep; the push-branch call before a poll answered
\* pending (no poll after another status); a flow makes at most 32
\* verify-factor calls.
C16_BoundedPolling ==
    LET sleeps == SleepAt
    IN  /\ Cardinality(sleeps) <= MaxPolls
        /\ \A i \in sleeps :
              /\ log[i].args = MFAInterval
              /\ i < Len(log) /\ IsPoll(log[i + 1])
              /\ i > 1 /\ IsPushCall(log[i - 1]) /\ Pending(log[i - 1])
        /\ Len(SelectSeq(log, IsPoll)) = Cardinality(sleeps)
        /\ Len(VFCalls) <= MaxPolls + 2

\* The largest number of verify-factor calls: 1 notifying call, 30 polls
\* and the OTP call.
C16_Witness ==
    /\ Len(VFCalls) = MaxPolls + 2
    /\ Cardinality(SleepAt) = MaxPolls
    /\ result.returned

(***************************************************************************)
(* C17                                                                     *)
(***************************************************************************)
\* C17: of the verify-factor calls of the push branch the first, and only
\* the first, is sent with DoNotNotify false; every later one is a poll
\* sent with DoNotNotify true; all of them carry an empty OTP.
C17_OnlyFirstCallNotifies ==
    LET push == PushCalls
    IN  \A i \in 1..Len(push) :
           /\ push[i].args.params.DoNotNotify = (i > 1)
           /\ push[i].args.site = IF i = 1 THEN "push" ELSE "poll"
           /\ push[i].args.params.OtpToken = ""

\* A push branch of a notifying call and two polls.
C17_Witness ==
    /\ Len(PushCalls) = 3
    /\ Accepted(PushCalls[3])

(***************************************************************************)
(* C18                                                                     *)
(***************************************************************************)
IsAssertion(e) == IsCallOf(e, "GenerateSamlAssertion")

\* C18: every verify-factor call of a flow carries the state token of the
\* assertion response, the device id getDevice returned and the app id of
\* the assertion request (and the access token); st, deviceID, appID and
\* token keep these values.
C18_SameChallengeInEveryCall ==
    LET vf == VFCalls
        a  == SelectSeq(log, IsAssertion)
        g  == GetDeviceCalls
    IN  vf # <<>> =>
        /\ Len(a) = 1 /\ Len(g) = 1
        /\ st = a[1].out /\ deviceID = g[1].out[1]
        /\ appID = a[1].args.AppId /\ token = a[1].args.token
        /\ \A i \in 1..Len(vf) :
              /\ vf[i].args.params.StateToken = a[1].out
              /\ vf[i].args.params.DeviceId = g[1].out[1]
              /\ vf[i].args.params.AppId = a[1].args.AppId
              /\ vf[i].args.token = a[1].args.token

\* The OTP call after a push timeout, for the second state token and a
\* device chosen among two.
C18_Witness ==
    /\ OtpCalls # <<>>
    /\ Len(PushCalls) = MaxPolls + 1
    /\ st = "st2"
    /\ Len(devices) = 2
    /\ OtpCalls[1].args.params.DeviceId = <<"3", "4", "0">>

(***************************************************************************)
(* C19                                                                     *)
(***************************************************************************)
IsPrompt(e) == e.kind = "prompt"

\* C19: the spinner is never started while running nor stopped while
\* stopped; it is stopped at every prompt (username, password, device,
\* OTP) and whenever Get has returned.
C19_SpinnerDiscipline ==
    /\ ~spin.fault
    /\ \A i \in 1..Len(log) : IsPrompt(log[i]) => log[i].args = FALSE
    /\ pc = "done" => ~spin.on
    /\ spin.on => pc = "poll"

\* Get returned from inside the polling loop.
C19_Witness ==
    /\ result.returned
    /\ log # <<>>
    /\ IsPoll(Last(log))
    /\ ~Last(log).ok
    /\ ~spin.on

=============================================================================
